---- MODULE Spec2Model ----
(***************************************************************************)
(* The bounded concurrent URL-discovery crawler of scraper.py:             *)
(* VapeScraper.find_product_urls (the coordinating thread) and             *)
(* VapeScraper.process_page (the worker tasks of the ThreadPoolExecutor).  *)
(*                                                                         *)
(* Strings are sequences of tokens ("https:", "/", "product", "s", ...);   *)
(* Python's `in` on strings is the contiguous-subsequence test In, so      *)
(* 'product' is a substring of '/products/' here as it is in Python.       *)
(***************************************************************************)
EXTENDS Integers, Sequences, FiniteSets, TLC

\* ------------------------------------------------------------------ bounds
\* largest budget max_urls a caller passes (the smallest is -1)
MaxUrls == 2
\* largest number of anchors on one fetched page
MaxLinks == 2
\* futures the model keeps for one batch (the frontier never holds more)
MaxTasks == 2
\* invocations of find_product_urls on one VapeScraper
MaxCalls == 2

\* ------------------------------------------------------- program constants
max_workers == 20
batch == 50
max_retries == 3

\* attribute_extractor.py, line 85: @retry_on_error(max_retries=3)
process_with_model_retries == 3

\* attribute_extractor.py, line 120: @retry_on_error(max_retries=3)
process_single_product_retries == 3

\* --------------------------------------------------------------- strings
Range(s) == {s[i] : i \in 1..Len(s)}

Min(a, b) == IF a < b THEN a ELSE b

\* Python: pat in s
In(pat, s) ==
    \E i \in 0..(Len(s) - Len(pat)) : SubSeq(s, i + 1, i + Len(pat)) = pat

\* Python: str.lower(), token by token
LowerTok(t) ==
    CASE t = "Shop" -> "shop"
      [] t = "Collection" -> "collection"
      [] OTHER -> t

lower(s) == [i \in 1..Len(s) |-> LowerTok(s[i])]

Scheme == <<"https:", "/", "/">>

\* config.py
TARGET_SITES ==
    [vaperanger |->
        [base_url |-> Scheme \o <<"vaperanger.com">>,
         product_pattern |-> <<"/", "product", "s", "/">>],
     vapewholesale |->
        [base_url |-> Scheme \o <<"vapewholesaleusa.com">>,
         product_pattern |-> <<"/">>]]

SiteNames == DOMAIN TARGET_SITES

\* the anchors (href values) a fetched page may carry, in document order
Anchors ==
    << <<"/", "product", "s", "/", "a">>,
       Scheme \o <<"vaperanger.com", "/", "product", "s", "/", "b">>,
       <<"/", "collection", "s", "/", "c">>,
       <<"/", "Shop">>,
       <<"/", "about">>,
       Scheme \o <<"other.test", "/", "product", "s", "/", "z">>,
       <<"/", "/", "[">> >>

Hrefs == Range(Anchors)

\* soup.find_all('a', href=True) yields the anchors in document order
FirstAnchor(todo) ==
    Anchors[CHOOSE i \in 1..Len(Anchors) :
                /\ Anchors[i] \in todo
                /\ \A j \in 1..Len(Anchors) : Anchors[j] \in todo => i <= j]

\* ------------------------------------------------------------ urllib.parse
HasScheme(u) == Len(u) >= 1 /\ u[1] = "https:"

AfterScheme(u) == IF HasScheme(u) THEN Tail(u) ELSE u

\* the tokens of s before its first "/"
UpToSlash(s) ==
    LET stops == {i \in 1..Len(s) : s[i] = "/"}
        n == IF stops = {} THEN Len(s)
             ELSE (CHOOSE i \in stops : \A j \in stops : i <= j) - 1
    IN SubSeq(s, 1, n)

\* urlparse(u).netloc
Netloc(u) ==
    LET r == AfterScheme(u)
    IN IF Len(r) >= 2 /\ r[1] = "/" /\ r[2] = "/"
       THEN UpToSlash(SubSeq(r, 3, Len(r)))
       ELSE <<>>

\* urlsplit raises ValueError("Invalid IPv6 URL")
UrlRaises(u) == "[" \in Range(Netloc(u)) /\ "]" \notin Range(Netloc(u))

\* urljoin(base, href), defined where it does not raise
urljoin(base, href) ==
    IF href = <<>> THEN base
    ELSE IF HasScheme(href) THEN href
    ELSE IF Netloc(href) # <<>> THEN <<base[1]>> \o href
    ELSE SubSeq(base, 1, 3 + Len(Netloc(base))) \o href

\* every URL the crawler can hold
Urls ==
    UNION { {TARGET_SITES[s].base_url}
            \cup {urljoin(TARGET_SITES[s].base_url, h) : h \in {x \in Hrefs : ~UrlRaises(x)}}
          : s \in SiteNames }

\* ------------------------------------------------------------------ state
VARIABLES
    cpc,            \* where the coordinating thread is in find_product_urls
    site_name,      \* argument of find_product_urls
    max_urls,       \* argument of find_product_urls
    base_url,       \* self.base_url
    base_domain,    \* self.base_domain
    visited_urls,   \* self.visited_urls
    product_urls,   \* local product_urls
    urls_to_visit,  \* local urls_to_visit
    task,           \* future_to_url: the submitted process_page calls
    result,         \* the returned list
    fetched,        \* history: number of get_page calls per URL
    rounds,         \* history: number of batches drawn
    drawn,          \* history: how often each URL was drawn into a batch
    calls,          \* history: number of find_product_urls invocations
    gp,             \* one get_page call: its loop and what it has done
    sp              \* one _process_single_product call and what it has done

vars == <<cpc, site_name, max_urls, base_url, base_domain, visited_urls,
          product_urls, urls_to_visit, task, result, fetched, rounds,
          drawn, calls, gp, sp>>

TaskIds == 1..MaxTasks

NoTask ==
    [pc |-> "none", url |-> <<>>, html |-> {}, failed |-> FALSE, todo |-> {},
     product_links |-> {}, category_links |-> {}]

None == <<>>

\* no get_page call is being followed
NoCall ==
    [pc |-> "none", outcomes |-> <<>>, attempt |-> 0, requests |-> 0,
     sleeps |-> 0, ret |-> "unset"]

\* a Python value: its type, what `x in value` finds in it, and whether its
\* entries are extracted text or the placeholder "N/A"
PyNone == [type |-> "NoneType", members |-> {}, entries |-> "none"]

PyUnset == [type |-> "unset", members |-> {}, entries |-> "none"]

\* no _process_single_product call is being followed
NoProduct ==
    [pc |-> "none", client |-> FALSE, outer |-> 0, inner |-> 0, api_calls |-> 0,
     sleeps |-> 0, response |-> "unset", ret |-> PyUnset]

\* ------------------------------------------------------------- classifier
\* is_valid_url without the comparison with the base domain
is_valid_url_AnyDomain(url, domain) == Netloc(url) # <<>>

\* is_valid_url
is_valid_url(url, domain) ==
    IF Netloc(url) # <<>> THEN Netloc(url) = domain ELSE FALSE

\* is_product_url with the pattern of one site used for every site
is_product_url_FixedSite(url, site) == In(TARGET_SITES["vaperanger"].product_pattern, url)

\* is_product_url
is_product_url(url, site) == In(TARGET_SITES[site].product_pattern, url)

Terms == {<<"product">>, <<"collection">>, <<"category">>, <<"shop">>}

\* line 82 without .lower()
HasTerm_CaseSensitive(url) == \E term \in Terms : In(term, url)

\* any(term in full_url.lower() for term in [...])
HasTerm(url) == \E term \in Terms : In(term, lower(url))

\* ---------------------------------------------------------------- get_page
\* what one requests.get / raise_for_status attempt can do
Outcomes == {"ok", "Timeout", "ConnectionError", "HTTPError"}

\* line 51 with the loop bound for the last index
LastAttempt_OffByOne(attempt) == attempt = max_retries

\* line 51: attempt == max_retries - 1
LastAttempt(attempt) == attempt = max_retries - 1

\* lines 46-49: one attempt; a success returns response.text
GetPageRequest ==
    /\ gp.pc = "try"
    /\ gp' = IF gp.outcomes[gp.attempt + 1] = "ok"
             THEN [gp EXCEPT !.requests = @ + 1, !.ret = "text", !.pc = "returned"]
             ELSE [gp EXCEPT !.requests = @ + 1, !.pc = "except"]
    /\ UNCHANGED <<cpc, site_name, max_urls, base_url, base_domain, visited_urls,
                   product_urls, urls_to_visit, task, result, fetched, rounds,
                   drawn, calls, sp>>

\* lines 50-53: except Exception; the last attempt prints and returns None
GetPageExcept ==
    /\ gp.pc = "except"
    /\ gp' = IF LastAttempt(gp.attempt)
             THEN [gp EXCEPT !.ret = "None", !.pc = "returned"]
             ELSE [gp EXCEPT !.pc = "sleep"]
    /\ UNCHANGED <<cpc, site_name, max_urls, base_url, base_domain, visited_urls,
                   product_urls, urls_to_visit, task, result, fetched, rounds,
                   drawn, calls, sp>>

\* lines 54 and 45: time.sleep(0.5), then the next index of range(max_retries);
\* a function whose loop ends returns None
GetPageSleep ==
    /\ gp.pc = "sleep"
    /\ gp' = IF gp.attempt + 1 < max_retries
             THEN [gp EXCEPT !.sleeps = @ + 1, !.attempt = @ + 1, !.pc = "try"]
             ELSE [gp EXCEPT !.sleeps = @ + 1, !.attempt = @ + 1,
                             !.ret = "None", !.pc = "returned"]
    /\ UNCHANGED <<cpc, site_name, max_urls, base_url, base_domain, visited_urls,
                   product_urls, urls_to_visit, task, result, fetched, rounds,
                   drawn, calls, sp>>

GetPage == GetPageRequest \/ GetPageExcept \/ GetPageSleep

\* ------------------------------------------------------------ process_page
Running == Cardinality({i \in TaskIds : task[i].pc \in {"add", "fetch", "classify"}})

\* line 58 without the membership test
AlreadyVisited_Never(url, visited) == FALSE

\* line 58: the membership test, outside the lock
AlreadyVisited(url, visited) == url \in visited

\* lines 58-59
CheckVisited(i) ==
    /\ task[i].pc = "pending"
    /\ Running < max_workers
    /\ IF AlreadyVisited(task[i].url, visited_urls)
       THEN task' = [task EXCEPT ![i].pc = "done"]
       ELSE task' = [task EXCEPT ![i].pc = "add"]
    /\ UNCHANGED <<cpc, site_name, max_urls, base_url, base_domain, visited_urls,
                   product_urls, urls_to_visit, result, fetched, rounds>>
    /\ UNCHANGED <<drawn, calls, gp, sp>>

\* lines 61-62: with self.found_urls_lock: self.visited_urls.add(url)
MarkVisited(i) ==
    /\ task[i].pc = "add"
    /\ visited_urls' = visited_urls \cup {task[i].url}
    /\ task' = [task EXCEPT ![i].pc = "fetch"]
    /\ UNCHANGED <<cpc, site_name, max_urls, base_url, base_domain,
                   product_urls, urls_to_visit, result, fetched, rounds>>
    /\ UNCHANGED <<drawn, calls, gp, sp>>

\* what get_page can return for a URL: None, or a page with some anchors
Pages == {h \in SUBSET Hrefs : Cardinality(h) <= MaxLinks}

\* lines 64-66 with the failure of get_page raised instead of returned
FetchResult_Raises(t, html, ok) ==
    IF ok /\ html # {}
    THEN [t EXCEPT !.pc = "classify", !.html = html, !.todo = html]
    ELSE [t EXCEPT !.pc = IF ok THEN "done" ELSE "raised", !.failed = ~ok]

\* lines 64-66 when get_page returns None, or a page without anchors
FetchResult(t, html, ok) ==
    IF ok /\ html # {}
    THEN [t EXCEPT !.pc = "classify", !.html = html, !.todo = html]
    ELSE [t EXCEPT !.pc = "done", !.failed = ~ok]

\* lines 64-68: html = self.get_page(url)
Fetch(i) ==
    /\ task[i].pc = "fetch"
    /\ \E ok \in BOOLEAN :
         \E html \in (IF ok THEN Pages ELSE {{}}) :
            task' = [task EXCEPT ![i] = FetchResult(task[i], html, ok)]
    /\ fetched' = [fetched EXCEPT ![task[i].url] = @ + 1]
    /\ UNCHANGED <<cpc, site_name, max_urls, base_url, base_domain, visited_urls,
                   product_urls, urls_to_visit, result, rounds>>
    /\ UNCHANGED <<drawn, calls, gp, sp>>

\* lines 73-83 for one anchor of the page
ClassifyLink(t, href, visited) ==
    LET joined == {urljoin(base_url, href)}
        valid == {full_url \in joined : is_valid_url(full_url, base_domain)}
        products == {full_url \in valid : is_product_url(full_url, site_name)}
        categories == {full_url \in valid \ products :
                          full_url \notin visited /\ HasTerm(full_url)}
        rest == t.todo \ {href}
    IN IF UrlRaises(href)
       THEN [t EXCEPT !.pc = "raised", !.todo = {},
                      !.product_links = {}, !.category_links = {}]
       ELSE [t EXCEPT !.product_links = @ \cup products,
                      !.category_links = @ \cup categories,
                      !.todo = rest,
                      !.pc = IF rest = {} THEN "done" ELSE "classify"]

\* lines 72-85 with the product links added to a shared set by the worker
Classify_SharedProducts(i) ==
    /\ task[i].pc = "classify"
    /\ \E href \in {FirstAnchor(task[i].todo)} :
          task' = [task EXCEPT ![i] = ClassifyLink(task[i], href, visited_urls)]
    /\ product_urls' = product_urls \cup task'[i].product_links
    /\ UNCHANGED <<cpc, site_name, max_urls, base_url, base_domain, visited_urls,
                   urls_to_visit, result, fetched, rounds>>
    /\ UNCHANGED <<drawn, calls, gp, sp>>

\* lines 72-85: one iteration of the loop over the anchors
Classify(i) ==
    /\ task[i].pc = "classify"
    /\ \E href \in {FirstAnchor(task[i].todo)} :
          task' = [task EXCEPT ![i] = ClassifyLink(task[i], href, visited_urls)]
    /\ UNCHANGED <<cpc, site_name, max_urls, base_url, base_domain, visited_urls,
                   product_urls, urls_to_visit, result, fetched, rounds>>
    /\ UNCHANGED <<drawn, calls, gp, sp>>

\* ------------------------------------------------------- find_product_urls
\* lines 87-96 with self.visited_urls left as the last invocation left it
Enter_KeepsVisited(s, m) ==
    /\ site_name' = s
    /\ max_urls' = m
    /\ base_url' = TARGET_SITES[s].base_url
    /\ base_domain' = Netloc(TARGET_SITES[s].base_url)
    /\ urls_to_visit' = {TARGET_SITES[s].base_url}
    /\ visited_urls' = visited_urls
    /\ product_urls' = {}
    /\ cpc' = "while"
    /\ task' = [i \in TaskIds |-> NoTask]
    /\ result' = <<>>
    /\ fetched' = [u \in Urls |-> 0]
    /\ drawn' = [u \in Urls |-> 0]
    /\ rounds' = 0
    /\ calls' = calls + 1
    /\ UNCHANGED <<gp, sp>>

\* lines 87-96: the invocation's arguments, fields and locals; nothing is
\* submitted, fetched or returned yet in this invocation
Enter(s, m) ==
    /\ site_name' = s
    /\ max_urls' = m
    /\ base_url' = TARGET_SITES[s].base_url
    /\ base_domain' = Netloc(TARGET_SITES[s].base_url)
    /\ urls_to_visit' = {TARGET_SITES[s].base_url}
    /\ visited_urls' = {}
    /\ product_urls' = {}
    /\ cpc' = "while"
    /\ task' = [i \in TaskIds |-> NoTask]
    /\ result' = <<>>
    /\ fetched' = [u \in Urls |-> 0]
    /\ drawn' = [u \in Urls |-> 0]
    /\ rounds' = 0
    /\ calls' = calls + 1
    /\ UNCHANGED <<gp, sp>>

\* lines 87-96: the first invocation on a new VapeScraper
Call ==
    /\ cpc = "idle"
    /\ \E s \in SiteNames, m \in (0 - 1)..MaxUrls : Enter(s, m)

\* lines 87-96: a further invocation on the same VapeScraper
CallAgain ==
    /\ cpc = "returned"
    /\ calls < MaxCalls
    /\ \E s \in SiteNames, m \in (0 - 1)..MaxUrls : Enter(s, m)

\* line 101 stopping one short of the budget
Continue_OneShort(frontier, found, max) == frontier # {} /\ Cardinality(found) < max - 1

\* line 101
Continue(frontier, found, max) == frontier # {} /\ Cardinality(found) < max

\* lines 102-103: the batches list(urls_to_visit)[:batch_size] may give
Batches(frontier) ==
    LET batch_size == Min(batch, Cardinality(frontier))
    IN {b \in SUBSET frontier : Cardinality(b) = batch_size}

\* lines 106-109: one future per URL of the batch
Submit(current_batch) ==
    LET n == Cardinality(current_batch)
        f == CHOOSE g \in [1..n -> current_batch] :
                \A a, b \in 1..n : a # b => g[a] # g[b]
    IN [i \in TaskIds |->
          IF i <= n THEN [NoTask EXCEPT !.pc = "pending", !.url = f[i]]
          ELSE NoTask]

\* lines 101-109
While ==
    /\ cpc = "while"
    /\ IF Continue(urls_to_visit, product_urls, max_urls)
       THEN \E current_batch \in Batches(urls_to_visit) :
              /\ Cardinality(current_batch) <= MaxTasks
              /\ urls_to_visit' = urls_to_visit \ current_batch
              /\ task' = Submit(current_batch)
              /\ rounds' = rounds + 1
              /\ drawn' = [u \in Urls |-> IF u \in current_batch THEN drawn[u] + 1
                                          ELSE drawn[u]]
              /\ cpc' = "for"
       ELSE /\ cpc' = "shutdown"
            /\ UNCHANGED <<urls_to_visit, task, rounds, drawn>>
    /\ UNCHANGED <<site_name, max_urls, base_url, base_domain, visited_urls,
                   product_urls, result, fetched, calls, gp, sp>>

\* line 117 without the overflow branch
Overflows_Never(found, new_products, max) == FALSE

\* line 117
Overflows(found, new_products, max) ==
    Cardinality(found) + Cardinality(new_products) > max

\* line 118 off by one
Remaining_PlusOne(found, max) == max - Cardinality(found) + 1

\* line 118
Remaining(found, max) == max - Cardinality(found)

\* line 119 as list(new_products)[:remaining - 1] for remaining >= 1
Slice_OneLess(new_products, remaining) ==
    LET k == IF remaining >= 1 THEN Min(remaining - 1, Cardinality(new_products)) ELSE 0
    IN {s \in SUBSET new_products : Cardinality(s) = k}

\* line 119: the sets list(new_products)[:remaining] may give
Slice(new_products, remaining) ==
    LET k == IF remaining >= 0 THEN Min(remaining, Cardinality(new_products))
             ELSE IF Cardinality(new_products) + remaining > 0
                  THEN Cardinality(new_products) + remaining ELSE 0
    IN {s \in SUBSET new_products : Cardinality(s) = k}

\* lines 120 and 125 with > for >=
BudgetMet_Strict(found, max) == Cardinality(found) > max

\* lines 120 and 125
BudgetMet(found, max) == Cardinality(found) >= max

\* line 126 without the test against visited_urls
Enqueue_NoVisitedFilter(frontier, page_categories, visited) ==
    frontier \cup page_categories

\* line 126
Enqueue(frontier, page_categories, visited) ==
    frontier \cup ((page_categories \ visited) \ frontier)

\* line 111 iterating over the futures that are done already, not as_completed
Unmerged_DoneOnly == {i \in TaskIds : task[i].pc \in {"done", "raised"}}

\* line 111: the futures as_completed has not yielded yet
Unmerged == {i \in TaskIds : task[i].pc \notin {"none", "merged", "caught"}}

\* lines 111-129: the body of the as_completed loop for one finished future
Merge(i) ==
    /\ cpc = "for"
    /\ task[i].pc \in {"done", "raised"}
    /\ LET raised == task[i].pc = "raised"
           new_products == task[i].product_links \ product_urls
           over == ~raised /\ Overflows(product_urls, new_products, max_urls)
       IN \E admitted \in (IF raised THEN {{}}
                           ELSE IF over
                                THEN Slice(new_products, Remaining(product_urls, max_urls))
                                ELSE {new_products}) :
            LET found == product_urls \cup admitted
                brk == over /\ BudgetMet(found, max_urls)
            IN /\ product_urls' = found
               /\ urls_to_visit' =
                    IF ~raised /\ ~brk /\ ~BudgetMet(found, max_urls)
                    THEN Enqueue(urls_to_visit, task[i].category_links, visited_urls)
                    ELSE urls_to_visit
               /\ cpc' = IF brk \/ Unmerged = {i} THEN "after" ELSE "for"
    /\ task' = [task EXCEPT ![i].pc = IF task[i].pc = "raised" THEN "caught" ELSE "merged"]
    /\ UNCHANGED <<site_name, max_urls, base_url, base_domain, visited_urls,
                   result, fetched, rounds>>
    /\ UNCHANGED <<drawn, calls, gp, sp>>

\* lines 131-132
AfterBatch ==
    /\ cpc = "after"
    /\ cpc' = IF BudgetMet(product_urls, max_urls) THEN "shutdown" ELSE "while"
    /\ UNCHANGED <<site_name, max_urls, base_url, base_domain, visited_urls,
                   product_urls, urls_to_visit, task, result, fetched, rounds>>
    /\ UNCHANGED <<drawn, calls, gp, sp>>

\* the orders list(product_urls) may give
Lists(S) ==
    {l \in [1..Cardinality(S) -> S] : \A a, b \in 1..Cardinality(S) : a # b => l[a] # l[b]}

\* line 134 reached without waiting for the tasks still running
Return_NoWait ==
    /\ cpc = "shutdown"
    /\ result' \in Lists(product_urls)
    /\ cpc' = "returned"
    /\ UNCHANGED <<site_name, max_urls, base_url, base_domain, visited_urls,
                   product_urls, urls_to_visit, task, fetched, rounds>>
    /\ UNCHANGED <<drawn, calls, gp, sp>>

\* line 100 (the executor's __exit__ waits for every task) and line 134
Return ==
    /\ cpc = "shutdown"
    /\ \A i \in TaskIds : task[i].pc \in {"none", "merged", "caught", "done", "raised"}
    /\ result' \in Lists(product_urls)
    /\ cpc' = "returned"
    /\ UNCHANGED <<site_name, max_urls, base_url, base_domain, visited_urls,
                   product_urls, urls_to_visit, task, fetched, rounds>>
    /\ UNCHANGED <<drawn, calls, gp, sp>>

\* ------------------------------------------------- attribute_extractor.py
\* lines 154-157
required_fields ==
    {"brand", "model", "flavor", "puff_count", "nicotine_strength",
     "battery_capacity", "coil_type"}

\* _get_default_attributes, lines 171-181
get_default_attributes ==
    [type |-> "dict", members |-> required_fields, entries |-> "N/A"]

\* line 112: what response.choices[0].message.content can be: None, or a text
Contents ==
    {"None", "", "Sure, here is the JSON", "{seven fields}",
     "{seven fields and sku}", "{brand}", "{}", "42", "null", "true", "[]",
     "[seven names]", "'brand model flavor puff_count nicotine_strength battery_capacity coil_type'",
     "'n/a'"}

\* line 150: `if response`
Truthy(response) == response \notin {"None", ""}

\* line 152: json.loads raises JSONDecodeError for a text that is not JSON
JSONDecodeError(response) == response = "Sure, here is the JSON"

\* line 152: the value json.loads returns for a JSON text
json_loads(response) ==
    CASE response = "{seven fields}" ->
            [type |-> "dict", members |-> required_fields, entries |-> "extracted"]
      [] response = "{seven fields and sku}" ->
            [type |-> "dict", members |-> required_fields \cup {"sku"},
             entries |-> "extracted"]
      [] response = "{brand}" ->
            [type |-> "dict", members |-> {"brand"}, entries |-> "extracted"]
      [] response = "{}" -> [type |-> "dict", members |-> {}, entries |-> "none"]
      [] response = "42" -> [type |-> "int", members |-> {}, entries |-> "none"]
      [] response = "null" -> PyNone
      [] response = "true" -> [type |-> "bool", members |-> {}, entries |-> "none"]
      [] response = "[]" -> [type |-> "list", members |-> {}, entries |-> "none"]
      [] response = "[seven names]" ->
            [type |-> "list", members |-> required_fields, entries |-> "none"]
      [] response = "'brand model flavor puff_count nicotine_strength battery_capacity coil_type'" ->
            [type |-> "str", members |-> required_fields, entries |-> "none"]
      [] response = "'n/a'" -> [type |-> "str", members |-> {}, entries |-> "none"]

\* line 159: `field in result` raises TypeError for a value that is no container
InRaises(value) == value.type \in {"int", "bool", "NoneType"}

\* line 159: all(field in result for field in required_fields)
AllFields(value) == \A field \in required_fields : field \in value.members

\* lines 15 and 19 of retry_on_error: the last index of range(max_retries)
LastRetry(attempt, retries) == attempt = retries - 1

SpUnchanged ==
    UNCHANGED <<cpc, site_name, max_urls, base_url, base_domain, visited_urls,
                product_urls, urls_to_visit, task, result, fetched, rounds,
                drawn, calls, gp>>

\* lines 15-17 of the wrapper of _process_single_product and lines 123-149:
\* the body builds the prompt and calls the wrapper of _process_with_model
ProductTry ==
    /\ sp.pc = "outer_try"
    /\ sp' = [sp EXCEPT !.pc = "inner_try", !.inner = 0, !.response = "unset"]
    /\ SpUnchanged

\* lines 15-17 of the wrapper of _process_with_model and lines 88-118: without
\* a client None is returned; the API call raises or gives a content
ModelTry ==
    /\ sp.pc = "inner_try"
    /\ IF ~sp.client
       THEN sp' = [sp EXCEPT !.response = "None", !.pc = "body"]
       ELSE \E outcome \in {"raise"} \cup Contents :
              sp' = IF outcome = "raise"
                    THEN [sp EXCEPT !.api_calls = @ + 1, !.pc = "inner_except"]
                    ELSE [sp EXCEPT !.api_calls = @ + 1, !.response = outcome,
                                    !.pc = "body"]
    /\ SpUnchanged

\* lines 18-21 of the wrapper of _process_with_model
ModelExcept ==
    /\ sp.pc = "inner_except"
    /\ sp' = IF LastRetry(sp.inner, process_with_model_retries)
             THEN [sp EXCEPT !.response = "None", !.pc = "body"]
             ELSE [sp EXCEPT !.pc = "inner_sleep"]
    /\ SpUnchanged

\* lines 22 and 15 of the wrapper of _process_with_model
ModelSleep ==
    /\ sp.pc = "inner_sleep"
    /\ sp' = [sp EXCEPT !.sleeps = @ + 1, !.inner = @ + 1, !.pc = "inner_try"]
    /\ SpUnchanged

\* lines 150-169: the response is parsed and checked
ProductBody ==
    /\ sp.pc = "body"
    /\ sp' = IF ~Truthy(sp.response)
             THEN [sp EXCEPT !.ret = get_default_attributes, !.pc = "returned"]
             ELSE IF JSONDecodeError(sp.response)
             THEN [sp EXCEPT !.ret = get_default_attributes, !.pc = "returned"]
             ELSE IF InRaises(json_loads(sp.response))
             THEN [sp EXCEPT !.pc = "outer_except"]
             ELSE IF AllFields(json_loads(sp.response))
             THEN [sp EXCEPT !.ret = json_loads(sp.response), !.pc = "returned"]
             ELSE [sp EXCEPT !.ret = get_default_attributes, !.pc = "returned"]
    /\ SpUnchanged

\* lines 18-21 of the wrapper of _process_single_product
ProductExcept ==
    /\ sp.pc = "outer_except"
    /\ sp' = IF LastRetry(sp.outer, process_single_product_retries)
             THEN [sp EXCEPT !.ret = PyNone, !.pc = "returned"]
             ELSE [sp EXCEPT !.pc = "outer_sleep"]
    /\ SpUnchanged

\* lines 22 and 15 of the wrapper of _process_single_product
ProductSleep ==
    /\ sp.pc = "outer_sleep"
    /\ sp' = [sp EXCEPT !.sleeps = @ + 1, !.outer = @ + 1, !.pc = "outer_try"]
    /\ SpUnchanged

ProcessSingleProduct ==
    \/ ProductTry \/ ModelTry \/ ModelExcept \/ ModelSleep
    \/ ProductBody \/ ProductExcept \/ ProductSleep

\* ---------------------------------------------------------- specification
\* __init__, lines 17-27
Init ==
    /\ cpc = "idle"
    /\ site_name = "vaperanger"
    /\ max_urls = 0
    /\ base_url = None
    /\ base_domain = None
    /\ visited_urls = {}
    /\ product_urls = {}
    /\ urls_to_visit = {}
    /\ task = [i \in TaskIds |-> NoTask]
    /\ result = <<>>
    /\ fetched = [u \in Urls |-> 0]
    /\ rounds = 0
    /\ drawn = [u \in Urls |-> 0]
    /\ calls = 0
    /\ gp = NoCall
    /\ sp = NoProduct

Worker ==
    \E i \in TaskIds : CheckVisited(i) \/ MarkVisited(i) \/ Fetch(i) \/ Classify(i)

Coordinator == Call \/ While \/ (\E i \in TaskIds : Merge(i)) \/ AfterBatch \/ Return

Next == Worker \/ Coordinator

Spec == Init /\ [][Next]_vars

\* every fetch returns (get_page has a timeout and a bounded retry loop) and
\* the threads of the pool and the coordinating thread are scheduled
FairSpec == Spec /\ WF_vars(Next)

\* several invocations of find_product_urls, one after the other
SpecSeq == Init /\ [][Next \/ CallAgain]_vars

\* process_page called directly by MaxTasks concurrent callers, on a scraper
\* whose base_url and base_domain were set by scrape_urls (lines 149-151)
InitDirect ==
    /\ cpc = "direct"
    /\ site_name \in SiteNames
    /\ max_urls = 0
    /\ base_url = TARGET_SITES[site_name].base_url
    /\ base_domain = Netloc(base_url)
    /\ visited_urls = {}
    /\ product_urls = {}
    /\ urls_to_visit = {}
    /\ task \in [TaskIds -> {[NoTask EXCEPT !.pc = "pending", !.url = u] :
                                u \in {base_url, urljoin(base_url, Anchors[3])}}]
    /\ result = <<>>
    /\ fetched = [u \in Urls |-> 0]
    /\ rounds = 0
    /\ drawn = [u \in Urls |-> 0]
    /\ calls = 0
    /\ gp = NoCall
    /\ sp = NoProduct

SpecDirect == InitDirect /\ [][Worker]_vars

\* one get_page call, for every way its attempts can go
InitGetPage ==
    /\ cpc = "get_page"
    /\ site_name \in SiteNames
    /\ max_urls = 0
    /\ base_url = TARGET_SITES[site_name].base_url
    /\ base_domain = Netloc(base_url)
    /\ visited_urls = {}
    /\ product_urls = {}
    /\ urls_to_visit = {}
    /\ task = [i \in TaskIds |-> NoTask]
    /\ result = <<>>
    /\ fetched = [u \in Urls |-> 0]
    /\ rounds = 0
    /\ drawn = [u \in Urls |-> 0]
    /\ calls = 0
    /\ \E o \in [1..max_retries -> Outcomes] : gp = [NoCall EXCEPT !.pc = "try", !.outcomes = o]
    /\ sp = NoProduct

SpecGetPage == InitGetPage /\ [][GetPage]_vars

\* one _process_single_product call on a product with 'content' and
\* 'file_name', with or without a client, for every way the API can answer
InitProduct ==
    /\ cpc = "process_single_product"
    /\ site_name \in SiteNames
    /\ max_urls = 0
    /\ base_url = TARGET_SITES[site_name].base_url
    /\ base_domain = Netloc(base_url)
    /\ visited_urls = {}
    /\ product_urls = {}
    /\ urls_to_visit = {}
    /\ task = [i \in TaskIds |-> NoTask]
    /\ result = <<>>
    /\ fetched = [u \in Urls |-> 0]
    /\ rounds = 0
    /\ drawn = [u \in Urls |-> 0]
    /\ calls = 0
    /\ gp = NoCall
    /\ \E c \in BOOLEAN : sp = [NoProduct EXCEPT !.pc = "outer_try", !.client = c]

SpecProduct == InitProduct /\ [][ProcessSingleProduct]_vars

TypeOK ==
    /\ cpc \in {"idle", "while", "for", "after", "shutdown", "returned", "direct",
                "get_page", "process_single_product"}
    /\ visited_urls \subseteq Urls
    /\ product_urls \subseteq Urls
    /\ urls_to_visit \subseteq Urls
    /\ \A i \in TaskIds :
         task[i].pc \in {"none", "pending", "add", "fetch", "classify", "done",
                         "raised", "merged", "caught"}

\* the coordinating thread is inside find_product_urls
InCrawl == cpc \in {"while", "for", "after", "shutdown"}

Finished(i) == task[i].pc \in {"done", "raised", "merged", "caught"}

\* a submitted task is still to run or running (a worker thread can step), or the
\* coordinating thread can take its next step
NotBlocked ==
    \/ \E i \in TaskIds : task[i].pc \in {"pending", "add", "fetch", "classify"}
    \/ ENABLED Coordinator

\* ------------------------------------------------------------------ claims
NoDuplicates(l) == \A a, b \in 1..Len(l) : a # b => l[a] # l[b]

ForeignProduct == Anchors[6]

\* C1 as stated: for every integer max_urls, the returned list has at most
\* max_urls elements
C1_LengthAtMostMaxUrls ==
    cpc = "returned" => Len(result) <= max_urls

\* C1 as amended: the returned list has at most max_urls elements when
\* max_urls >= 0 and is empty when max_urls is negative
C1_LengthAtMostBudget ==
    cpc = "returned" => Len(result) <= (IF max_urls >= 0 THEN max_urls ELSE 0)

\* a crawl that returned exactly max_urls URLs and left a found product link out
C1_Witness ==
    /\ cpc = "returned"
    /\ max_urls >= 1
    /\ Len(result) = max_urls
    /\ \E i \in TaskIds :
         task[i].pc = "merged" /\ ~(task[i].product_links \subseteq Range(result))

\* C2: during a crawl with max_urls >= 1 the Product URL Set never has more than
\* max_urls elements, it only grows, and once it has max_urls elements no later
\* page result changes it
C2_ProductSetBounded ==
    /\ [](InCrawl /\ max_urls >= 1 => Cardinality(product_urls) <= max_urls)
    /\ [][InCrawl /\ max_urls >= 1 =>
            /\ product_urls \subseteq product_urls'
            /\ (Cardinality(product_urls) = max_urls => product_urls' = product_urls)]_vars

\* the set is full while a finished page result with a product link that is not
\* in it waits to be merged
C2_Witness ==
    /\ cpc = "for"
    /\ max_urls >= 1
    /\ Cardinality(product_urls) = max_urls
    /\ \E i \in TaskIds :
         task[i].pc = "done" /\ task[i].product_links \ product_urls # {}

\* C3: every returned URL contains the site's product pattern and has the site's
\* base domain as its network location, the returned list has no duplicates, and
\* no foreign-domain link is ever in the Product URL Set
C3_ProductsInDomainAndMatching ==
    /\ \A u \in product_urls \cup (IF cpc = "returned" THEN Range(result) ELSE {}) :
         /\ In(TARGET_SITES[site_name].product_pattern, u)
         /\ Netloc(u) = Netloc(TARGET_SITES[site_name].base_url)
    /\ cpc = "returned" => NoDuplicates(result) /\ Range(result) = product_urls

\* a crawl returned product URLs after merging a page that carried a
\* foreign-domain link matching the product pattern
C3_Witness ==
    /\ cpc = "returned"
    /\ result # <<>>
    /\ \E i \in TaskIds :
         /\ task[i].pc = "merged"
         /\ ForeignProduct \in task[i].html
         /\ In(TARGET_SITES[site_name].product_pattern, ForeignProduct)
         /\ task[i].product_links # {}

\* C4: within one find_product_urls invocation get_page is called at most once
\* for every URL
C4_FetchedAtMostOnce ==
    cpc # "direct" => \A u \in Urls : fetched[u] <= 1

\* a URL that was already fetched is submitted to a worker a second time
C4_Witness ==
    \E i \in TaskIds :
        /\ InCrawl
        /\ task[i].pc = "pending"
        /\ fetched[task[i].url] = 1

\* C5: the Frontier and the Visited Set are disjoint in every state of a crawl
C5_FrontierVisitedDisjoint ==
    InCrawl => urls_to_visit \cap visited_urls = {}

\* the task has gone past the membership test of line 58 and fetches the page
PastCheck(i) == task[i].pc \in {"add", "fetch", "classify", "raised"}

\* C6: the membership test and the insertion of process_page are one atomic
\* test-and-set: of the callers running process_page on the same not-yet-visited
\* URL, at most one goes past the check, and every URL is fetched at most once
C6_AtomicTestAndSet ==
    /\ \A i, j \in TaskIds :
         i # j /\ task[i].url = task[j].url => ~(PastCheck(i) /\ PastCheck(j))
    /\ \A u \in Urls : fetched[u] <= 1

\* the product links of a finished page result that are not yet in the set
NewProducts(i) == task[i].product_links \ product_urls

\* C7: merging a page result with n new product links while found = max_urls - m,
\* 0 <= m < n, admits exactly m of those links, makes found = max_urls and ends
\* the crawl, whose result then has max_urls elements
C7_BudgetBoundary ==
    /\ [][\A i \in TaskIds :
            LET n == Cardinality(NewProducts(i))
                m == max_urls - Cardinality(product_urls)
            IN (cpc = "for" /\ task[i].pc = "done" /\ task'[i].pc = "merged"
                    /\ 0 <= m /\ m < n)
               => /\ product_urls \subseteq product_urls'
                  /\ product_urls' \ product_urls \subseteq NewProducts(i)
                  /\ Cardinality(product_urls' \ product_urls) = m
                  /\ Cardinality(product_urls') = max_urls
                  /\ cpc' = "after"]_vars
    /\ [](cpc = "returned" /\ Cardinality(product_urls) = max_urls
            => Len(result) = max_urls)

\* the first page result carried two product links with max_urls = 1: one of
\* them was admitted and the crawl returned it
C7_Witness ==
    /\ cpc = "returned"
    /\ max_urls = 1
    /\ rounds = 1
    /\ Len(result) = 1
    /\ \E i \in TaskIds :
         /\ task[i].pc = "merged"
         /\ Cardinality(task[i].product_links) = 2
         /\ result[1] \in task[i].product_links

\* the anchors of a page that resolve to a URL of the site's domain
InDomainLinks(html) ==
    {h \in html : ~UrlRaises(h) /\ Netloc(urljoin(base_url, h)) = Netloc(base_url)}

\* the seed page was fetched and carries no in-domain link
SeedWithoutLinks ==
    /\ InCrawl \/ cpc = "returned"
    /\ max_urls >= 1
    /\ \E i \in TaskIds :
         /\ task[i].url = base_url
         /\ Finished(i)
         /\ ~task[i].failed
         /\ fetched[base_url] = 1
         /\ InDomainLinks(task[i].html) = {}

\* C8: when the seed page is fetched and has no in-domain link, the crawl with
\* max_urls >= 1 ends after that one batch, has fetched the seed URL only, never
\* blocks before it returns, and returns the empty list
C8_SeedWithoutLinksEndsEmpty ==
    SeedWithoutLinks =>
        /\ rounds = 1
        /\ \A u \in Urls : fetched[u] = (IF u = base_url THEN 1 ELSE 0)
        /\ product_urls = {}
        /\ urls_to_visit = {}
        /\ cpc = "returned" => result = <<>>
        /\ cpc = "returned" \/ NotBlocked

\* such a crawl has returned, and the seed page did carry a (foreign) link
C8_Witness ==
    /\ SeedWithoutLinks
    /\ cpc = "returned"
    /\ \E i \in TaskIds : task[i].url = base_url /\ ForeignProduct \in task[i].html

\* C9: a failed fetch gives the empty classification for its URL only: the URL
\* stays visited, the other tasks of the batch are still merged and their product
\* links are in the Product URL Set (unless the budget was met first), the crawl
\* never blocks before it returns, and it returns the accumulated set
C9_FetchFailureIsLocal ==
    /\ \A i \in TaskIds : task[i].failed =>
            /\ task[i].pc \in {"done", "merged"}
            /\ task[i].product_links = {}
            /\ task[i].category_links = {}
            /\ task[i].url \in visited_urls
            /\ fetched[task[i].url] = 1
    /\ (cpc \in {"while", "shutdown", "returned"}
           /\ Cardinality(product_urls) < max_urls)
         => \A i \in TaskIds :
               /\ task[i].pc \in {"none", "merged", "caught"}
               /\ task[i].product_links \subseteq product_urls
    /\ InCrawl => NotBlocked
    /\ cpc = "returned" => Range(result) = product_urls

\* one fetch of a batch failed, another page of the same batch was merged and
\* its product links were returned
C9_Witness ==
    /\ cpc = "returned"
    /\ \E i, j \in TaskIds :
         /\ task[i].failed /\ task[i].pc = "merged"
         /\ task[j].pc = "merged" /\ task[j].product_links # {}
         /\ task[j].product_links \subseteq Range(result)

\* C10: once found >= max_urls, no page result merged at or after that moment
\* adds a URL to the Frontier and no further batch is drawn; when the seed page
\* carries at least max_urls product links, the crawl returns max_urls of them
\* after that one batch and fetches none of the seed page's candidate links
C10_CompleteStopsEnqueueing ==
    /\ [][InCrawl =>
            /\ Cardinality(product_urls') >= max_urls => urls_to_visit' \subseteq urls_to_visit
            /\ Cardinality(product_urls) >= max_urls => rounds' = rounds]_vars
    /\ [](\A i \in TaskIds :
            (/\ cpc = "returned"
             /\ max_urls >= 1
             /\ task[i].url = base_url
             /\ task[i].pc = "merged"
             /\ Cardinality(task[i].product_links) >= max_urls)
            => /\ rounds = 1
               /\ Len(result) = max_urls
               /\ Range(result) \subseteq task[i].product_links
               /\ \A u \in task[i].category_links : fetched[u] = 0)

\* the seed page carried max_urls product links and a collection link: the
\* crawl returned the product links and never fetched the collection page
C10_Witness ==
    /\ cpc = "returned"
    /\ max_urls >= 1
    /\ \E i \in TaskIds :
         /\ task[i].url = base_url
         /\ task[i].pc = "merged"
         /\ Cardinality(task[i].product_links) = max_urls
         /\ Range(result) = task[i].product_links
         /\ task[i].category_links # {}
         /\ \A u \in task[i].category_links : fetched[u] = 0

\* C11: a batch is drawn only when every task of the batch before it has finished
\* and its result has been merged (or its exception caught); between two batches
\* no task is pending or running
C11_BatchesRunToCompletion ==
    /\ [](cpc = "while" => \A i \in TaskIds : task[i].pc \in {"none", "merged", "caught"})
    /\ [][rounds' = rounds + 1 =>
            \A i \in TaskIds : task[i].pc \in {"none", "merged", "caught"}]_vars

\* a third batch is being processed, after two batches that ran to completion
C11_Witness ==
    /\ cpc = "for"
    /\ rounds = 3
    /\ Cardinality({u \in Urls : drawn[u] >= 1}) = 3

\* the links of a page, resolved against the base URL
PageUrls(html) == {urljoin(base_url, h) : h \in {x \in html : ~UrlRaises(x)}}

\* C12: for max_urls >= 1 a returned result has exactly max_urls URLs or the
\* Frontier is empty, so a shorter result is returned only with the Frontier
\* exhausted; every URL that enters the Product URL Set is a product link of a
\* page of this crawl that was fetched successfully
C12_ShortResultOnlyWhenExhausted ==
    /\ []((cpc = "returned" /\ max_urls >= 1) =>
            /\ Len(result) = max_urls \/ urls_to_visit = {}
            /\ Len(result) <= max_urls
            /\ Range(result) = product_urls)
    /\ [](\A i \in TaskIds : task[i].product_links # {} =>
            /\ ~task[i].failed
            /\ fetched[task[i].url] = 1
            /\ task[i].product_links \subseteq PageUrls(task[i].html))
    /\ [][InCrawl => \A u \in product_urls' \ product_urls :
            \E i \in TaskIds :
                /\ task[i].pc = "done" /\ task'[i].pc = "merged"
                /\ u \in task[i].product_links]_vars

\* a crawl returned fewer than max_urls URLs, but some, after several batches
C12_Witness ==
    /\ cpc = "returned"
    /\ rounds >= 2
    /\ result # <<>>
    /\ Len(result) < max_urls
    /\ urls_to_visit = {}

\* C13: every URL is drawn into at most one batch of a crawl
C13_DrawnAtMostOnce ==
    \A u \in Urls : drawn[u] <= 1

\* the claim's three tests of a link, written out
LinkInDomain(u) == Netloc(u) # <<>> /\ Netloc(u) = Netloc(TARGET_SITES[site_name].base_url)

LinkHasPattern(u) == In(TARGET_SITES[site_name].product_pattern, u)

LinkHasListingTerm(u) ==
    \E k \in 1..Len(u) :
        LowerTok(u[k]) \in {"product", "collection", "category", "shop"}

\* the anchors of its page a task has classified so far
Classified(i) == PageUrls(task[i].html \ task[i].todo)

\* C14: for a successfully fetched page, product_links holds exactly the in-domain
\* links with the product pattern; candidate_links holds exactly the in-domain
\* links without the pattern that were not visited when they were classified and
\* contain a listing term case-insensitively; the two sets are disjoint and hold
\* nothing else
C14_ClassifierPartition ==
    /\ [](\A i \in TaskIds :
            (task[i].pc \in {"classify", "done", "merged"} /\ ~task[i].failed) =>
              /\ task[i].product_links =
                    {u \in Classified(i) : LinkInDomain(u) /\ LinkHasPattern(u)}
              /\ task[i].category_links \subseteq
                    {u \in Classified(i) :
                        LinkInDomain(u) /\ ~LinkHasPattern(u) /\ LinkHasListingTerm(u)}
              /\ {u \in Classified(i) :
                        /\ LinkInDomain(u) /\ ~LinkHasPattern(u) /\ LinkHasListingTerm(u)
                        /\ u \notin visited_urls} \subseteq task[i].category_links
              /\ task[i].product_links \cap task[i].category_links = {})
    /\ [][\A i \in TaskIds :
            (task[i].pc = "classify" /\ task'[i].pc \in {"classify", "done"}
                /\ task'[i].todo # task[i].todo) =>
              \A u \in PageUrls(task[i].todo \ task'[i].todo) :
                 (u \in task'[i].category_links) <=>
                    \/ u \in task[i].category_links
                    \/ /\ LinkInDomain(u) /\ ~LinkHasPattern(u)
                       /\ u \notin visited_urls
                       /\ LinkHasListingTerm(u)]_vars

\* a page with a product link and the link /Shop was classified: the first is a
\* product link, the second a candidate
C14_Witness ==
    \E i \in TaskIds :
        /\ task[i].pc = "done"
        /\ task[i].html = {Anchors[1], Anchors[4]}
        /\ task[i].product_links = {urljoin(base_url, Anchors[1])}
        /\ task[i].category_links = {urljoin(base_url, Anchors[4])}

\* task i takes a step of process_page
WorkerStep(i) ==
    task[i].pc \in {"pending", "add", "fetch", "classify"} /\ task'[i] # task[i]

\* C15: a step of process_page changes no shared state but the Visited Set, to
\* which it adds at most its own URL; the Product URL Set and the Frontier change
\* only in steps of the coordinating thread, and they receive URLs only from the
\* one finished page result merged in that step
C15_WorkersOnlyMarkVisited ==
    /\ [][\A i \in TaskIds : (InCrawl /\ WorkerStep(i)) =>
            /\ product_urls' = product_urls
            /\ urls_to_visit' = urls_to_visit
            /\ visited_urls \subseteq visited_urls'
            /\ visited_urls' \subseteq visited_urls \cup {task[i].url}
            /\ \A j \in TaskIds \ {i} : task'[j] = task[j]]_vars
    /\ [][(InCrawl /\ (product_urls' # product_urls \/ urls_to_visit' # urls_to_visit)) =>
            /\ cpc \in {"while", "for"}
            /\ visited_urls' = visited_urls
            /\ \A i \in TaskIds : ~WorkerStep(i)
            /\ (product_urls' \ product_urls) \cup (urls_to_visit' \ urls_to_visit) # {} =>
                 \E i \in TaskIds :
                    /\ task[i].pc = "done" /\ task'[i].pc = "merged"
                    /\ \A j \in TaskIds \ {i} : task'[j] = task[j]
                    /\ product_urls' \ product_urls \subseteq task[i].product_links
                    /\ urls_to_visit' \ urls_to_visit \subseteq task[i].category_links]_vars

\* one page result has been merged while another worker holds product links
\* that are not in the Product URL Set
C15_Witness ==
    /\ cpc = "for"
    /\ \E i, j \in TaskIds :
         /\ task[i].pc = "merged" /\ task[i].product_links # {}
         /\ task[j].pc = "classify"
         /\ task[j].product_links \ product_urls # {}

\* C16: when find_product_urls returns, no task is pending or running and every
\* URL that was drawn into a batch is in the Visited Set
C16_NoTaskLeftBehind ==
    cpc = "returned" =>
        /\ \A i \in TaskIds : task[i].pc \in {"none", "done", "raised", "merged", "caught"}
        /\ \A u \in Urls : drawn[u] >= 1 => u \in visited_urls

\* the budget was reached in the middle of a batch: the other task of the batch
\* ran to its end, fetched its page, and was never merged
C16_Witness ==
    /\ cpc = "returned"
    /\ Len(result) = max_urls
    /\ \E i, j \in TaskIds :
         /\ task[i].pc = "merged"
         /\ task[j].pc = "done" /\ fetched[task[j].url] = 1 /\ task[j].html # {}

\* C17: under fair scheduling find_product_urls returns for every site and
\* every max_urls; a URL enters the Frontier only while it is not in the Visited
\* Set, every URL drawn so far is visited whenever the loop test of line 101 is
\* reached, and the number of batches then never exceeds the number of visited
\* URLs
C17_CrawlTerminates ==
    /\ (cpc = "while") ~> (cpc = "returned")
    /\ [][InCrawl => (urls_to_visit' \ urls_to_visit) \cap visited_urls = {}]_vars
    /\ [](cpc = "while" => \A u \in Urls : drawn[u] >= 1 => u \in visited_urls)
    /\ [](InCrawl => rounds <= Cardinality(visited_urls) + 1)
    /\ [](cpc = "while" => rounds <= Cardinality(visited_urls))

\* a crawl returned after three batches
C17_Witness == cpc = "returned" /\ rounds = 3 /\ max_urls = MaxUrls

\* the index of the first attempt of the call that succeeds, 0 if none does
FirstOk ==
    LET oks == {k \in 1..Len(gp.outcomes) : gp.outcomes[k] = "ok"}
    IN IF oks = {} THEN 0 ELSE CHOOSE k \in oks : \A j \in oks : k <= j

\* C18: get_page makes at most 3 requests; it returns the text of the first
\* successful attempt with no further request, sleeps once between two
\* attempts, returns None after three failures with two sleeps, and every
\* exception of an attempt ends in the handler, never at the caller
C18_AtMostThreeAttempts ==
    /\ gp.requests <= 3
    /\ gp.pc \in {"try", "except", "sleep", "returned"}
    /\ gp.pc = "try" => gp.sleeps = gp.requests /\ gp.requests = gp.attempt
    /\ gp.pc # "returned" => gp.ret = "unset"
    /\ gp.pc = "returned" =>
         IF FirstOk # 0
         THEN gp.ret = "text" /\ gp.requests = FirstOk /\ gp.sleeps = FirstOk - 1
         ELSE gp.ret = "None" /\ gp.requests = 3 /\ gp.sleeps = 2

\* three attempts failed, each with another exception, and the call returned None
C18_Witness ==
    /\ gp.pc = "returned" /\ gp.ret = "None" /\ gp.requests = 3
    /\ gp.outcomes = <<"Timeout", "ConnectionError", "HTTPError">>

\* C19: every invocation of find_product_urls, the first or a later one on the
\* same scraper, starts with an empty Visited Set, an empty Product URL Set and
\* a Frontier holding the site's base URL; during it the Visited Set holds only
\* URLs drawn by this invocation, each of which it fetches itself, and the
\* result holds only links of pages this invocation fetched
C19_InvocationsIndependent ==
    /\ [][cpc' = "while" /\ cpc \in {"idle", "returned"} =>
            /\ visited_urls' = {}
            /\ product_urls' = {}
            /\ urls_to_visit' = {TARGET_SITES[site_name'].base_url}]_vars
    /\ [](InCrawl \/ cpc = "returned" =>
            /\ \A u \in visited_urls : drawn[u] >= 1
            /\ \A u \in Urls : fetched[u] >= 1 => u \in visited_urls /\ fetched[u] = 1)
    /\ [](cpc = "returned" =>
            /\ \A u \in Urls : drawn[u] >= 1 => fetched[u] = 1
            /\ max_urls >= 1 => fetched[base_url] = 1
            /\ Range(result) = product_urls)
    /\ [][(InCrawl /\ product_urls' # product_urls) =>
            \E i \in TaskIds :
               /\ task[i].pc = "done" /\ task'[i].pc = "merged"
               /\ fetched[task[i].url] = 1
               /\ product_urls' \ product_urls \subseteq PageUrls(task[i].html)]_vars

\* a second invocation on the same scraper fetched the seed again and returned
\* product URLs after two batches
C19_Witness ==
    /\ calls = 2 /\ cpc = "returned"
    /\ rounds >= 2 /\ result # <<>>
    /\ fetched[base_url] = 1

\* the site whose product pattern '/' is a substring of every in-domain URL
SlashSite == TARGET_SITES[site_name].product_pattern = <<"/">>

\* C20 as stated: for the pattern '/' the crawl fetches exactly the seed page,
\* whatever max_urls is
C20_FetchesExactlySeed ==
    (cpc = "returned" /\ SlashSite) =>
        /\ fetched[base_url] = 1
        /\ \A u \in Urls \ {base_url} : fetched[u] = 0

\* C20, amended: for the pattern '/' no task ever holds a candidate link and the
\* Frontier never holds a URL other than the seed; no page but the seed is
\* fetched; a crawl with max_urls >= 1 fetches the seed page exactly once and
\* returns only product links of that page, a crawl with max_urls <= 0 fetches
\* no page and returns the empty list
C20_SeedOnlyWhenBudgetPositive ==
    ((InCrawl \/ cpc = "returned") /\ SlashSite) =>
        /\ \A i \in TaskIds : task[i].category_links = {}
        /\ urls_to_visit \subseteq {base_url}
        /\ rounds <= 1
        /\ \A u \in Urls \ {base_url} : fetched[u] = 0 /\ drawn[u] = 0
        /\ cpc = "returned" =>
             IF max_urls >= 1
             THEN /\ fetched[base_url] = 1
                  /\ \E i \in TaskIds :
                        /\ task[i].url = base_url
                        /\ Range(result) \subseteq task[i].product_links
                        /\ task[i].product_links \subseteq PageUrls(task[i].html)
             ELSE fetched[base_url] = 0 /\ result = <<>>

\* the seed page of the '/' site links to /collections/c: the link is returned
\* as a product URL and its page is never fetched
C20_Witness ==
    /\ cpc = "returned" /\ SlashSite /\ max_urls >= 1
    /\ \E i \in TaskIds : task[i].url = base_url /\ Anchors[3] \in task[i].html
    /\ urljoin(base_url, Anchors[3]) \in Range(result)
    /\ fetched[urljoin(base_url, Anchors[3])] = 0

\* the model's answer is valid JSON and an object with every required field
ValidAndComplete(response) ==
    /\ Truthy(response)
    /\ ~JSONDecodeError(response)
    /\ json_loads(response).type = "dict"
    /\ required_fields \subseteq json_loads(response).members

\* C21: _process_single_product invokes the model API at most 3 times and
\* always returns a record with the seven required fields: the parsed JSON of
\* the model's answer when that is valid and has every required field, the
\* all-"N/A" default record otherwise
C21_AtMostThreeCallsAndARecord ==
    /\ sp.api_calls <= 3
    /\ sp.pc = "returned" =>
         /\ sp.ret.type = "dict"
         /\ required_fields \subseteq sp.ret.members
         /\ sp.ret = IF ValidAndComplete(sp.response)
                     THEN json_loads(sp.response)
                     ELSE get_default_attributes

\* the parts of C21 the code keeps: every call returns, with at most 3 API
\* calls for each run of the body and at most 9 in all
C21_CodeBehaviour ==
    /\ sp.api_calls <= 9
    /\ sp.api_calls <= 3 * (sp.outer + 1)
    /\ sp.pc = "returned" =>
         \/ sp.ret = get_default_attributes
         \/ sp.ret = PyNone /\ sp.outer = 2 /\ InRaises(json_loads(sp.response))
         \/ sp.ret = json_loads(sp.response) /\ AllFields(sp.ret)
====
